---- MODULE Spec2Model ----
(* Lifecycle and per-frame protocol of RendererVulkan                      *)
(* (src/video_core/renderer_vulkan/renderer_vulkan.cpp).                   *)
(* Every member function is one action; the calls it makes on its          *)
(* collaborators are recorded, in program order, in the variable trace.    *)
EXTENDS Integers, Sequences, FiniteSets, TLC

(* ------------------------------ bounds -------------------------------- *)
MaxWidth == 2
MaxHeight == 1
MaxDevices == 2
NumSemaphores == 2
MaxExtensions == 3

Widths == 0..MaxWidth
Heights == 0..MaxHeight
DeviceCounts == 0..MaxDevices
DeviceIndices == (0 - 1)..(MaxDevices + 1)
Semaphores == 1..NumSemaphores

(* characters are their codes; a string is a sequence of characters        *)
Comma == 44
Dot == 46
Zero == 48

(* "a", "b", "c", "ab", "ba" *)
ExtensionNames ==
    {<<97>>, <<98>>, <<99>>, <<97, 98>>, <<98, 97>>}

ExtensionLists ==
    UNION {[1..n -> ExtensionNames] : n \in 0..MaxExtensions}

(* a 32-bit word is the set of the positions of its set bits; the sampled  *)
(* versions set any of the bits next to a field boundary                   *)
VersionBits ==
    {0, 5, 6, 11, 12, 13, 14, 21, 22, 31}

Versions ==
    SUBSET VersionBits

DriverIds ==
    {"NVIDIA_PROPRIETARY", "INTEL_PROPRIETARY_WINDOWS", "AMD_PROPRIETARY",
     "MESA_RADV"}

Platforms == {"win32", "unix", "apple"}
WindowSystemTypes == {"Headless", "Windows", "X11", "Wayland"}

VARIABLES platform, alive, render_window, screen_info,
          library, instance, debug_callback, surface, device,
          memory_manager, state_tracker, scheduler, swapchain,
          rasterizer, blit_screen, in_flight, started, call, ret, trace, report

vars == <<platform, alive, render_window, screen_info,
          library, instance, debug_callback, surface, device,
          memory_manager, state_tracker, scheduler, swapchain,
          rasterizer, blit_screen, in_flight, started, call, ret, trace, report>>

(* --------------------------- call recording --------------------------- *)
(* One recorded call: its name, its arguments (w, h, srgb, sem), flag for  *)
(* a boolean argument (Draw) or result (AccelerateDisplay, Present, the    *)
(* platform surface constructors, CreateSurface, IsSuitable,               *)
(* VKDevice::Create, PickDevices), and                                     *)
(* what the callee saw: st is the presentation engine's state, blit whether the *)
(* blit target was built against the engine's current images, busy whether *)
(* a flushed submission was still in flight.                               *)
Ev(op) ==
    [op |-> op, w |-> 0, h |-> 0, srgb |-> FALSE, sem |-> 0, flag |-> FALSE,
     st |-> "Uninitialized", blit |-> FALSE, busy |-> FALSE]

NoCall ==
    [name |-> "none", fb |-> FALSE, width |-> 0, height |-> 0, shown |-> FALSE,
     accel |-> FALSE, outdated |-> FALSE, index |-> 0, count |-> 0,
     enumerated |-> FALSE, inited |-> FALSE, device |-> FALSE, type |-> "none"]

(* What Report was given and what it produced: kind is the field reported, *)
(* out the string built for it.                                            *)
NoReport ==
    [kind |-> "none", driver_id |-> "none", version |-> {}, extensions |-> <<>>,
     out |-> <<>>, done |-> FALSE]

(* ------------------- collaborators outside this file ------------------ *)
NoSwapchain ==
    [held |-> FALSE, width |-> 0, height |-> 0, srgb |-> FALSE,
     state |-> "Uninitialized"]

NoBlitScreen == [held |-> FALSE, current |-> FALSE]

NoDevice == [held |-> FALSE, logical |-> FALSE]

(* VKSwapchain::Create: the engine caches the values passed and is Ready.  *)
SwapchainCreate(sc, w, h, srgb) ==
    [sc EXCEPT !.width = w, !.height = h, !.srgb = srgb, !.state = "Ready"]

(* VKSwapchain::HasFramebufferChanged: polled layout against cached extent *)
HasFramebufferChanged(sc, w, h) ==
    w # sc.width \/ h # sc.height

GetSrgbState(sc) ==
    sc.srgb

(* VKSwapchain::Present: true means the engine has gone Stale.             *)
SwapchainPresent(sc, outdated) ==
    [sc EXCEPT !.state = IF outdated THEN "Stale" ELSE @]

(* VKDevice::Create: it reports success exactly when the logical device    *)
(* was constructed.                                                        *)
DeviceCreate(create_ok) ==
    [held |-> TRUE, logical |-> create_ok]

(* The machine threaded through one SwapBuffers invocation.                *)
Machine(sc, blit, busy, tr) ==
    [sc |-> sc, blit |-> blit, busy |-> busy, tr |-> tr]

Observe(m, op) ==
    [Ev(op) EXCEPT !.st = m.sc.state, !.blit = m.blit.current, !.busy = m.busy]

Emit(m, e) ==
    [m EXCEPT !.tr = Append(@, e)]

(* -------------------------- 32-bit arithmetic ------------------------- *)
(* u32 >> k *)
ShiftRight(v, k) ==
    {b - k : b \in {x \in v : x >= k}}

RECURSIVE BitsOf(_)
(* the bits of a literal *)
BitsOf(n) ==
    IF n = 0
    THEN {}
    ELSE (IF n % 2 = 1 THEN {0} ELSE {}) \cup {b + 1 : b \in BitsOf(n \div 2)}

(* u32 & literal *)
BitAnd(v, mask) ==
    v \cap BitsOf(mask)

RECURSIVE Value(_)
(* the number a word stands for *)
Value(v) ==
    IF v = {}
    THEN 0
    ELSE LET b == CHOOSE x \in v : TRUE
         IN  2 ^ b + Value(v \ {b})

RECURSIVE Decimal(_)
(* fmt's "{}" of an unsigned number *)
Decimal(n) ==
    IF n < 10
    THEN <<Zero + n>>
    ELSE Decimal(n \div 10) \o <<Zero + (n % 10)>>

(* ---------------------------- GetReadableVersion ---------------------- *)
(* lines 52-55; VK_VERSION_MAJOR, VK_VERSION_MINOR and VK_VERSION_PATCH    *)
(* are the Vulkan header's macros: v >> 22, (v >> 12) & 0x3ff, v & 0xfff   *)
GetReadableVersion(version) ==
    Decimal(Value(ShiftRight(version, 22))) \o <<Dot>> \o
    Decimal(Value(BitAnd(ShiftRight(version, 12), 1023))) \o <<Dot>> \o
    Decimal(Value(BitAnd(version, 4095)))

(* ----------------------------- GetDriverVersion ----------------------- *)
(* lines 57-75 with the minor field of line 64 masked by 0x3ff *)
GetDriverVersion_WideMinor(driver_id, version) ==
    IF driver_id = "NVIDIA_PROPRIETARY"
    THEN Decimal(Value(BitAnd(ShiftRight(version, 22), 1023))) \o <<Dot>> \o
         Decimal(Value(BitAnd(ShiftRight(version, 14), 1023))) \o <<Dot>> \o
         Decimal(Value(BitAnd(ShiftRight(version, 6), 255))) \o <<Dot>> \o
         Decimal(Value(BitAnd(version, 63)))
    ELSE IF driver_id = "INTEL_PROPRIETARY_WINDOWS"
    THEN Decimal(Value(ShiftRight(version, 14))) \o <<Dot>> \o
         Decimal(Value(BitAnd(version, 16383)))
    ELSE GetReadableVersion(version)

(* lines 57-75 *)
GetDriverVersion(driver_id, version) ==
    IF driver_id = "NVIDIA_PROPRIETARY"
    THEN Decimal(Value(BitAnd(ShiftRight(version, 22), 1023))) \o <<Dot>> \o
         Decimal(Value(BitAnd(ShiftRight(version, 14), 255))) \o <<Dot>> \o
         Decimal(Value(BitAnd(ShiftRight(version, 6), 255))) \o <<Dot>> \o
         Decimal(Value(BitAnd(version, 63)))
    ELSE IF driver_id = "INTEL_PROPRIETARY_WINDOWS"
    THEN Decimal(Value(ShiftRight(version, 14))) \o <<Dot>> \o
         Decimal(Value(BitAnd(version, 16383)))
    ELSE GetReadableVersion(version)

(* ----------------------- BuildCommaSeparatedExtensions ---------------- *)
RECURSIVE LexLess(_, _)
(* std::string operator< *)
LexLess(a, b) ==
    IF b = <<>> THEN FALSE
    ELSE IF a = <<>> THEN TRUE
    ELSE IF a[1] # b[1] THEN a[1] < b[1]
    ELSE LexLess(Tail(a), Tail(b))

RECURSIVE SortedInsert(_, _)
SortedInsert(x, s) ==
    IF s = <<>> THEN <<x>>
    ELSE IF LexLess(s[1], x) THEN <<s[1]>> \o SortedInsert(x, Tail(s))
    ELSE <<x>> \o s

RECURSIVE SortStrings(_)
(* line 78: std::sort *)
SortStrings(s) ==
    IF s = <<>> THEN <<>> ELSE SortedInsert(s[1], SortStrings(Tail(s)))

RECURSIVE AppendExtensions(_, _)
(* lines 85-91: the loop from position i; is_last when i + 1 is the end    *)
AppendExtensions(sorted, i) ==
    IF i > Len(sorted)
    THEN <<>>
    ELSE (IF i + 1 = Len(sorted) + 1 THEN sorted[i] ELSE sorted[i] \o <<Comma>>) \o
         AppendExtensions(sorted, i + 1)

(* lines 77-93 without line 78 *)
BuildCommaSeparatedExtensions_Unsorted(available_extensions) ==
    AppendExtensions(available_extensions, 1)

(* lines 77-93 *)
BuildCommaSeparatedExtensions(available_extensions) ==
    AppendExtensions(SortStrings(available_extensions), 1)

(* ----------------------- RendererVulkan::SwapBuffers ------------------ *)
(* line 113 with the visibility test negated *)
Presentable_Hidden(w, h, shown) ==
    w > 0 /\ h > 0 /\ ~shown

(* line 113 without the visibility test *)
Presentable_IgnoresShown(w, h, shown) ==
    w > 0 /\ h > 0

(* line 113: the frame is presented only for a non-empty, shown window     *)
Presentable(w, h, shown) ==
    w > 0 /\ h > 0 /\ shown

(* line 117 without the acceleration test *)
IsSrgb_IgnoresAcceleration(use_accelerated, screen_is_srgb) ==
    screen_is_srgb

(* line 117 *)
IsSrgb(use_accelerated, screen_is_srgb) ==
    use_accelerated /\ screen_is_srgb

(* lines 119-120 taken on every frame *)
NeedsRecreate_Always(sc, w, h, is_srgb) ==
    TRUE

(* line 118 without the color-space comparison *)
NeedsRecreate_LayoutOnly(sc, w, h, is_srgb) ==
    HasFramebufferChanged(sc, w, h)

(* line 118 *)
NeedsRecreate(sc, w, h, is_srgb) ==
    HasFramebufferChanged(sc, w, h) \/ GetSrgbState(sc) # is_srgb

(* line 120 and line 131: blit_screen->Recreate() *)
BlitRecreate(m) ==
    Emit([m EXCEPT !.blit.current = TRUE], Observe(m, "Recreate"))

(* lines 118-121 without line 120 *)
RecreateStage_NoBlit(m, w, h, is_srgb) ==
    IF NeedsRecreate(m.sc, w, h, is_srgb)
    THEN LET e == [Observe(m, "Create") EXCEPT !.w = w, !.h = h, !.srgb = is_srgb]
         IN  Emit([m EXCEPT !.sc = SwapchainCreate(m.sc, w, h, is_srgb),
                            !.blit.current = FALSE], e)
    ELSE m

(* lines 118-121 *)
RecreateStage(m, w, h, is_srgb) ==
    IF NeedsRecreate(m.sc, w, h, is_srgb)
    THEN LET e == [Observe(m, "Create") EXCEPT !.w = w, !.h = h, !.srgb = is_srgb]
             m1 == Emit([m EXCEPT !.sc = SwapchainCreate(m.sc, w, h, is_srgb),
                                  !.blit.current = FALSE], e)
         IN  BlitRecreate(m1)
    ELSE m

(* lines 125-128, without the wait of line 123 *)
SubmitStage_NoWait(m, use_accelerated, sem) ==
    LET m2 == Emit(m, [Observe(m, "AcquireNextImage") EXCEPT
                          !.w = m.sc.width, !.h = m.sc.height,
                          !.srgb = m.sc.srgb])
        m3 == Emit(m2, [Observe(m2, "Draw") EXCEPT
                           !.sem = sem, !.flag = use_accelerated])
    IN  Emit([m3 EXCEPT !.busy = TRUE], [Observe(m3, "Flush") EXCEPT !.sem = sem])

(* lines 123-128 with the flush issued before the frame is drawn *)
SubmitStage_FlushBeforeDraw(m, use_accelerated, sem) ==
    LET m1 == Emit([m EXCEPT !.busy = FALSE], Observe(m, "WaitWorker"))
        m2 == Emit(m1, [Observe(m1, "AcquireNextImage") EXCEPT
                           !.w = m1.sc.width, !.h = m1.sc.height,
                           !.srgb = m1.sc.srgb])
        m3 == Emit([m2 EXCEPT !.busy = TRUE], [Observe(m2, "Flush") EXCEPT !.sem = sem])
    IN  Emit(m3, [Observe(m3, "Draw") EXCEPT !.sem = sem, !.flag = use_accelerated])

(* lines 123-128; the AcquireNextImage record carries the cached extent    *)
(* and colour space of the engine it acquires from                         *)
SubmitStage(m, use_accelerated, sem) ==
    LET m1 == Emit([m EXCEPT !.busy = FALSE], Observe(m, "WaitWorker"))
        m2 == Emit(m1, [Observe(m1, "AcquireNextImage") EXCEPT
                           !.w = m1.sc.width, !.h = m1.sc.height,
                           !.srgb = m1.sc.srgb])
        m3 == Emit(m2, [Observe(m2, "Draw") EXCEPT
                           !.sem = sem, !.flag = use_accelerated])
    IN  Emit([m3 EXCEPT !.busy = TRUE], [Observe(m3, "Flush") EXCEPT !.sem = sem])

(* lines 130-134 with line 134 moved before line 131 *)
PresentStage_TickFirst(m, sem, outdated) ==
    LET m1 == Emit([m EXCEPT !.sc = SwapchainPresent(m.sc, outdated)],
                   [Observe(m, "Present") EXCEPT !.sem = sem, !.flag = outdated])
        m2 == Emit(m1, Observe(m1, "TickFrame"))
    IN  IF outdated THEN BlitRecreate(m2) ELSE m2

(* lines 130-134 *)
PresentStage(m, sem, outdated) ==
    LET m1 == Emit([m EXCEPT !.sc = SwapchainPresent(m.sc, outdated)],
                   [Observe(m, "Present") EXCEPT !.sem = sem, !.flag = outdated])
        m2 == IF outdated THEN BlitRecreate(m1) ELSE m1
    IN  Emit(m2, Observe(m2, "TickFrame"))

(* lines 112-135 *)
FrameStage(m, w, h, shown, use_accelerated, screen_is_srgb, sem, outdated) ==
    IF Presentable(w, h, shown)
    THEN LET m1 == Emit(m, [Observe(m, "AccelerateDisplay") EXCEPT
                               !.flag = use_accelerated])
             m2 == RecreateStage(m1, w, h, IsSrgb(use_accelerated, screen_is_srgb))
             m3 == SubmitStage(m2, use_accelerated, sem)
         IN  PresentStage(m3, sem, outdated)
    ELSE m

(* lines 108-138 with the early return jumping to line 137 *)
SwapBuffersBody_NotifiesAbsent(m, fb, w, h, shown, use_accelerated, screen_is_srgb, sem, outdated) ==
    LET m1 == IF fb
              THEN FrameStage(m, w, h, shown, use_accelerated, screen_is_srgb,
                              sem, outdated)
              ELSE m
    IN  Emit(m1, Observe(m1, "OnFrameDisplayed"))

(* lines 108-138 *)
SwapBuffersBody(m, fb, w, h, shown, use_accelerated, screen_is_srgb, sem, outdated) ==
    IF ~fb
    THEN m
    ELSE LET m1 == FrameStage(m, w, h, shown, use_accelerated, screen_is_srgb,
                              sem, outdated)
         IN  Emit(m1, Observe(m1, "OnFrameDisplayed"))

(* ---------------------- RendererVulkan::CreateSurface ----------------- *)
(* One platform constructor: resolve it from the instance, then call it.   *)
(* Nothing resolves from an instance that was not created.                 *)
PlatformSurface(name, inst, resolve_ok, call_ok) ==
    LET resolved == inst /\ resolve_ok
        tr == <<Ev("vkGetInstanceProcAddr:" \o name)>> \o
              (IF resolved
               THEN <<[Ev("vkCreate" \o name \o "SurfaceKHR") EXCEPT !.flag = call_ok]>>
               ELSE <<>>)
    IN  [ok |-> resolved /\ call_ok, tr |-> tr]

(* lines 195-237 with the last branch of a build taken for every other type *)
SurfaceBranches_Fallback(plat, type) ==
    IF plat = "win32"
    THEN <<"Win32">>
    ELSE IF plat = "unix"
    THEN (IF type = "X11" THEN <<"Xlib">> ELSE <<"Wayland">>)
    ELSE <<>>

(* lines 195-237: the branches compiled into this build that match type   *)
SurfaceBranches(plat, type) ==
    IF plat = "win32"
    THEN (IF type = "Windows" THEN <<"Win32">> ELSE <<>>)
    ELSE IF plat = "unix"
    THEN (IF type = "X11" THEN <<"Xlib">> ELSE <<>>) \o
         (IF type = "Wayland" THEN <<"Wayland">> ELSE <<>>)
    ELSE <<>>

(* lines 191-245 *)
CreateSurface(plat, type, inst, resolve_ok, call_ok) ==
    LET br == SurfaceBranches(plat, type)
    IN  IF br = <<>>
        THEN [ret |-> FALSE, assigned |-> FALSE, tr |-> <<>>]
        ELSE LET ps == PlatformSurface(br[1], inst, resolve_ok, call_ok)
             IN  [ret |-> ps.ok, assigned |-> ps.ok, tr |-> ps.tr]

(* ----------------------- RendererVulkan::PickDevices ------------------ *)
(* line 255 with > for >= *)
InvalidDeviceIndex_OffByOne(device_index, count) ==
    device_index < 0 \/ device_index > count

(* line 255 *)
InvalidDeviceIndex(device_index, count) ==
    device_index < 0 \/ device_index >= count

(* lines 247-268 with the device constructed before the suitability test *)
PickDevices_ConstructsFirst(dev, enum_ok, count, device_index, suitable, create_ok) ==
    LET tr1 == <<Ev("EnumeratePhysicalDevices")>>
    IN  IF ~enum_ok
        THEN [ret |-> FALSE, device |-> dev, tr |-> tr1]
        ELSE IF InvalidDeviceIndex(device_index, count)
        THEN [ret |-> FALSE, device |-> dev, tr |-> tr1]
        ELSE IF ~suitable
        THEN [ret |-> FALSE, device |-> DeviceCreate(FALSE),
              tr |-> tr1 \o <<Ev("VKDevice"), Ev("IsSuitable")>>]
        ELSE [ret |-> create_ok,
              device |-> DeviceCreate(create_ok),
              tr |-> tr1 \o <<Ev("VKDevice"), [Ev("IsSuitable") EXCEPT !.flag = TRUE],
                              [Ev("VKDevice::Create") EXCEPT !.flag = create_ok]>>]

(* lines 247-268; dev is the device member on entry                        *)
PickDevices(dev, enum_ok, count, device_index, suitable, create_ok) ==
    LET tr1 == <<Ev("EnumeratePhysicalDevices")>>
    IN  IF ~enum_ok
        THEN [ret |-> FALSE, device |-> dev, tr |-> tr1]
        ELSE IF InvalidDeviceIndex(device_index, count)
        THEN [ret |-> FALSE, device |-> dev, tr |-> tr1]
        ELSE IF ~suitable
        THEN [ret |-> FALSE, device |-> dev, tr |-> Append(tr1, Ev("IsSuitable"))]
        ELSE [ret |-> create_ok,
              device |-> DeviceCreate(create_ok),
              tr |-> tr1 \o <<[Ev("IsSuitable") EXCEPT !.flag = TRUE], Ev("VKDevice"),
                              [Ev("VKDevice::Create") EXCEPT !.flag = create_ok]>>]

(* -------------------------- RendererVulkan::Init ---------------------- *)
(* lines 141-146 *)
InitInstanceCalls(renderer_debug) ==
    <<Ev("OpenLibrary"), Ev("CreateInstance")>> \o
    (IF renderer_debug THEN <<Ev("CreateDebugCallback")>> ELSE <<>>)

(* lines 152-170 *)
InitComponentCalls(w, h) ==
    <<Ev("Report"), Ev("VKMemoryManager"), Ev("StateTracker"), Ev("VKScheduler"),
      Ev("VKSwapchain"), [Ev("Create") EXCEPT !.w = w, !.h = h],
      Ev("RasterizerVulkan"), Ev("VKBlitScreen")>>

(* ------------------------ RendererVulkan::ShutDown -------------------- *)
(* unique_ptr::reset destroys the object when one is held                  *)
Reset(m, held, name) ==
    IF held THEN Emit(m, Observe(m, name)) ELSE m

(* lines 179-181 *)
WaitIdleStage(m, dev) ==
    IF dev.logical
    THEN Emit([m EXCEPT !.busy = FALSE], Observe(m, "WaitIdle"))
    ELSE m

(* lines 175-189 with line 188 moved before line 183 *)
ShutDownBody_DeviceFirst(m, dev, ras, sch, mem) ==
    IF ~dev.held
    THEN m
    ELSE LET m1 == WaitIdleStage(m, dev)
             m2 == Reset(m1, dev.held, "~VKDevice")
             m3 == Reset(m2, ras, "~RasterizerVulkan")
             m4 == Reset(m3, m.blit.held, "~VKBlitScreen")
             m5 == Reset(m4, sch, "~VKScheduler")
             m6 == Reset(m5, m.sc.held, "~VKSwapchain")
         IN  Reset(m6, mem, "~VKMemoryManager")

(* lines 175-189 with the wait issued after the rasterizer is released *)
ShutDownBody_ReleaseFirst(m, dev, ras, sch, mem) ==
    IF ~dev.held
    THEN m
    ELSE LET m1 == Reset(m, ras, "~RasterizerVulkan")
             m2 == WaitIdleStage(m1, dev)
             m3 == Reset(m2, m.blit.held, "~VKBlitScreen")
             m4 == Reset(m3, sch, "~VKScheduler")
             m5 == Reset(m4, m.sc.held, "~VKSwapchain")
             m6 == Reset(m5, mem, "~VKMemoryManager")
         IN  Reset(m6, dev.held, "~VKDevice")

(* lines 175-189; m.tr is the calls made, empty on the early return        *)
ShutDownBody(m, dev, ras, sch, mem) ==
    IF ~dev.held
    THEN m
    ELSE LET m1 == WaitIdleStage(m, dev)
             m2 == Reset(m1, ras, "~RasterizerVulkan")
             m3 == Reset(m2, m.blit.held, "~VKBlitScreen")
             m4 == Reset(m3, sch, "~VKScheduler")
             m5 == Reset(m4, m.sc.held, "~VKSwapchain")
             m6 == Reset(m5, mem, "~VKMemoryManager")
         IN  Reset(m6, dev.held, "~VKDevice")

(* ------------------------------- state -------------------------------- *)
Init ==
    /\ platform \in Platforms
    /\ alive = TRUE
    /\ render_window \in [width : Widths, height : Heights, shown : BOOLEAN]
    /\ screen_info = [is_srgb |-> FALSE]
    /\ library = FALSE
    /\ instance = FALSE
    /\ debug_callback = FALSE
    /\ surface = FALSE
    /\ device = NoDevice
    /\ memory_manager = FALSE
    /\ state_tracker = FALSE
    /\ scheduler = FALSE
    /\ swapchain = NoSwapchain
    /\ rasterizer = FALSE
    /\ blit_screen = NoBlitScreen
    /\ in_flight = FALSE
    /\ started = FALSE
    /\ call = NoCall
    /\ ret = TRUE
    /\ trace = <<>>
    /\ report = NoReport

(* Init has built every component SwapBuffers dereferences.                *)
Initialized ==
    rasterizer /\ scheduler /\ swapchain.held /\ blit_screen.held

(* ------------------------------ actions ------------------------------- *)
(* The state Init leaves when CreateSurface returned cs and PickDevices,    *)
(* if it ran, returned pd; lines 140-173                                   *)
InitEffect(lib_ok, inst_ok, renderer_debug, cs, pd) ==
    LET ok == cs.ret /\ pd.ret
        w  == render_window.width
        h  == render_window.height
    IN  /\ library' = lib_ok
        /\ instance' = (lib_ok /\ inst_ok)
        /\ debug_callback' = (renderer_debug \/ debug_callback)
        /\ surface' = (cs.assigned \/ surface)
        /\ device' = IF cs.ret THEN pd.device ELSE device
        /\ memory_manager' = (ok \/ memory_manager)
        /\ state_tracker' = (ok \/ state_tracker)
        /\ scheduler' = (ok \/ scheduler)
        /\ swapchain' = IF ok
                        THEN SwapchainCreate([NoSwapchain EXCEPT !.held = TRUE],
                                             w, h, FALSE)
                        ELSE swapchain
        /\ rasterizer' = (ok \/ rasterizer)
        /\ blit_screen' = IF ok THEN [held |-> TRUE, current |-> TRUE]
                          ELSE blit_screen
        /\ trace' = InitInstanceCalls(renderer_debug) \o
                    <<[Ev("CreateSurface") EXCEPT !.flag = cs.ret]>> \o cs.tr \o
                    (IF cs.ret
                     THEN <<[Ev("PickDevices") EXCEPT !.flag = pd.ret]>> \o pd.tr
                     ELSE <<>>) \o
                    (IF ok THEN InitComponentCalls(w, h) ELSE <<>>)
        /\ ret' = ok

(* PickDevices did not run *)
NotPicked ==
    [ret |-> FALSE, device |-> device, tr |-> <<>>]

(* RendererVulkan::Init, lines 140-173; the owner of the renderer calls it *)
(* once, on the renderer it has just constructed                           *)
RendererInit ==
    /\ alive
    /\ ~started
    /\ started' = TRUE
    /\ \E lib_ok, inst_ok, renderer_debug, resolve_ok, call_ok \in BOOLEAN :
       \E type \in WindowSystemTypes :
         LET cs == CreateSurface(platform, type, lib_ok /\ inst_ok, resolve_ok, call_ok)
         IN  IF cs.ret
             THEN \E enum_ok, suitable, create_ok \in BOOLEAN :
                  \E count \in DeviceCounts, device_index \in DeviceIndices :
                    /\ InitEffect(lib_ok, inst_ok, renderer_debug, cs,
                                  PickDevices(device, enum_ok, count, device_index,
                                              suitable, create_ok))
                    /\ call' = [NoCall EXCEPT !.name = "Init",
                                   !.width = render_window.width,
                                   !.height = render_window.height,
                                   !.type = type,
                                   !.index = device_index,
                                   !.count = IF enum_ok THEN count ELSE 0,
                                   !.enumerated = enum_ok]
             ELSE /\ InitEffect(lib_ok, inst_ok, renderer_debug, cs, NotPicked)
                  /\ call' = [NoCall EXCEPT !.name = "Init",
                                   !.type = type,
                                   !.width = render_window.width,
                                   !.height = render_window.height]
    /\ UNCHANGED <<report, platform, alive, render_window, screen_info, in_flight>>

(* RendererVulkan::SwapBuffers, lines 108-138; a frame that reaches line   *)
(* 116 dereferences the components Init builds, so the owner presents      *)
(* frames only on an initialized renderer                                  *)
SwapBuffers ==
    /\ alive
    /\ \E fb, use_accelerated, new_srgb, outdated \in BOOLEAN :
       \E sem \in Semaphores :
         LET w  == render_window.width
             h  == render_window.height
             sh == render_window.shown
             presenting == fb /\ Presentable(w, h, sh)
             scr == IF presenting THEN new_srgb ELSE screen_info.is_srgb
             m  == SwapBuffersBody(Machine(swapchain, blit_screen, in_flight, <<>>),
                                   fb, w, h, sh, use_accelerated, scr, sem, outdated)
         IN  /\ presenting => Initialized
             /\ screen_info' = [is_srgb |-> scr]
             /\ swapchain' = m.sc
             /\ blit_screen' = m.blit
             /\ in_flight' = m.busy
             /\ trace' = m.tr
             /\ call' = [NoCall EXCEPT !.name = "SwapBuffers", !.fb = fb,
                                       !.width = w, !.height = h, !.shown = sh,
                                       !.accel = (presenting /\ use_accelerated),
                                       !.outdated = (presenting /\ outdated),
                                       !.inited = Initialized]
             /\ ret' = TRUE
    /\ UNCHANGED <<report, platform, alive, render_window, library, instance,
                   debug_callback, surface, device, memory_manager,
                   state_tracker, scheduler, rasterizer, started>>

(* The state ShutDown leaves, lines 183-188 *)
ShutDownEffect ==
    LET m == ShutDownBody(Machine(swapchain, blit_screen, in_flight, <<>>),
                          device, rasterizer, scheduler, memory_manager)
    IN  /\ trace' = m.tr
        /\ in_flight' = m.busy
        /\ rasterizer' = (rasterizer /\ ~device.held)
        /\ blit_screen' = IF device.held THEN NoBlitScreen ELSE blit_screen
        /\ scheduler' = (scheduler /\ ~device.held)
        /\ swapchain' = IF device.held THEN NoSwapchain ELSE swapchain
        /\ memory_manager' = (memory_manager /\ ~device.held)
        /\ device' = NoDevice
        /\ ret' = TRUE

(* RendererVulkan::ShutDown, lines 175-189 *)
ShutDown ==
    /\ alive
    /\ ShutDownEffect
    /\ call' = [NoCall EXCEPT !.name = "ShutDown",
                              !.inited = (Initialized /\ device.logical),
                              !.device = device.held]
    /\ UNCHANGED <<report, platform, alive, render_window, screen_info, library, instance,
                   debug_callback, surface, state_tracker, started>>

(* RendererVulkan::~RendererVulkan, lines 104-106, then the members die    *)
Destructor ==
    /\ alive
    /\ ShutDownEffect
    /\ call' = [NoCall EXCEPT !.name = "~RendererVulkan",
                              !.inited = (Initialized /\ device.logical),
                              !.device = device.held]
    /\ alive' = FALSE
    /\ library' = FALSE
    /\ instance' = FALSE
    /\ debug_callback' = FALSE
    /\ surface' = FALSE
    /\ state_tracker' = FALSE
    /\ UNCHANGED <<report, platform, render_window, screen_info, started>>

(* A step of a collaborator is no call of the renderer: it makes none of   *)
(* the recorded calls.                                                     *)
Collaborator(name) ==
    /\ call' = [NoCall EXCEPT !.name = name]
    /\ ret' = TRUE
    /\ trace' = <<>>

(* The window collaborator: the layout and visibility change between frames *)
Resize ==
    /\ alive
    /\ \E w \in Widths, h \in Heights :
         /\ <<w, h>> # <<render_window.width, render_window.height>>
         /\ render_window' = [render_window EXCEPT !.width = w, !.height = h]
    /\ Collaborator("Resize")
    /\ UNCHANGED <<report, platform, alive, screen_info, library, instance, debug_callback,
                   surface, device, memory_manager, state_tracker, scheduler,
                   swapchain, rasterizer, blit_screen, in_flight, started>>

SetShown ==
    /\ alive
    /\ render_window' = [render_window EXCEPT !.shown = ~@]
    /\ Collaborator("SetShown")
    /\ UNCHANGED <<report, platform, alive, screen_info, library, instance, debug_callback,
                   surface, device, memory_manager, state_tracker, scheduler,
                   swapchain, rasterizer, blit_screen, in_flight, started>>

(* The submission worker retires the flushed work on its own               *)
WorkerRetire ==
    /\ in_flight
    /\ in_flight' = FALSE
    /\ Collaborator("WorkerRetire")
    /\ UNCHANGED <<report, platform, alive, render_window, screen_info, library, instance,
                   debug_callback, surface, device, memory_manager, state_tracker,
                   scheduler, swapchain, rasterizer, blit_screen, started>>

Next ==
    \/ RendererInit
    \/ SwapBuffers
    \/ ShutDown
    \/ Destructor
    \/ Resize
    \/ SetShown
    \/ WorkerRetire

Spec == Init /\ [][Next]_vars

(* ------------------------ RendererVulkan::Report ---------------------- *)
(* The renderer at line 152: the device has been picked and created.       *)
ReportInputs ==
    {[NoReport EXCEPT !.kind = "driver", !.driver_id = id, !.version = v] :
        id \in DriverIds, v \in Versions}
    \cup
    {[NoReport EXCEPT !.kind = "extensions", !.extensions = e] :
        e \in ExtensionLists}

ReportInit ==
    /\ platform = "unix"
    /\ alive = TRUE
    /\ render_window = [width |-> 0, height |-> 0, shown |-> FALSE]
    /\ screen_info = [is_srgb |-> FALSE]
    /\ library = TRUE
    /\ instance = TRUE
    /\ debug_callback = FALSE
    /\ surface = TRUE
    /\ device = DeviceCreate(TRUE)
    /\ memory_manager = FALSE
    /\ state_tracker = FALSE
    /\ scheduler = FALSE
    /\ swapchain = NoSwapchain
    /\ rasterizer = FALSE
    /\ blit_screen = NoBlitScreen
    /\ in_flight = FALSE
    /\ started = TRUE
    /\ call = [NoCall EXCEPT !.name = "Init"]
    /\ ret = TRUE
    /\ trace = <<>>
    /\ report \in ReportInputs

(* line 273: the driver version string of the device *)
ReportDriverVersion ==
    /\ report.kind = "driver"
    /\ ~report.done
    /\ report' = [report EXCEPT
                     !.out = GetDriverVersion(report.driver_id, report.version),
                     !.done = TRUE]
    /\ UNCHANGED <<platform, alive, render_window, screen_info, library, instance,
                   debug_callback, surface, device, memory_manager, state_tracker,
                   scheduler, swapchain, rasterizer, blit_screen, in_flight,
                   started, call, ret, trace>>

(* line 278: the extension list of the device *)
ReportExtensions ==
    /\ report.kind = "extensions"
    /\ ~report.done
    /\ report' = [report EXCEPT
                     !.out = BuildCommaSeparatedExtensions(report.extensions),
                     !.done = TRUE]
    /\ UNCHANGED <<platform, alive, render_window, screen_info, library, instance,
                   debug_callback, surface, device, memory_manager, state_tracker,
                   scheduler, swapchain, rasterizer, blit_screen, in_flight,
                   started, call, ret, trace>>

ReportNext ==
    \/ ReportDriverVersion
    \/ ReportExtensions

SpecReport == ReportInit /\ [][ReportNext]_vars

(* ======================= properties of the renderer =================== *)
Positions(op) ==
    {i \in DOMAIN trace : trace[i].op = op}

Count(op) ==
    Cardinality(Positions(op))

InSwapBuffers ==
    call.name = "SwapBuffers"

(* the invocation had a framebuffer, a non-empty layout and a shown window *)
PresentingCall ==
    InSwapBuffers /\ call.fb /\ call.width > 0 /\ call.height > 0 /\ call.shown

FrameCalls ==
    {"AccelerateDisplay", "Create", "Recreate", "WaitWorker", "AcquireNextImage",
     "Draw", "Flush", "Present", "TickFrame"}

(* C1: a SwapBuffers invocation with a framebuffer, a layout of positive   *)
(* width and height and a shown window calls AcquireNextImage exactly once *)
(* and Present exactly once.                                               *)
C1_AcquirePresentOnce ==
    PresentingCall =>
        Count("AcquireNextImage") = 1 /\ Count("Present") = 1

C1_Witness ==
    PresentingCall /\ Count("AcquireNextImage") = 1 /\ Count("Present") = 1

C3_SkippedFrameStillNotifies ==
    (InSwapBuffers /\ call.fb
        /\ (call.width = 0 \/ call.height = 0 \/ ~call.shown)) =>
        /\ \A i \in DOMAIN trace : trace[i].op \notin FrameCalls
        /\ Count("OnFrameDisplayed") = 1
        /\ Len(trace) = 1

C3_Witness ==
    InSwapBuffers /\ call.fb /\ call.inited /\ call.width > 0 /\ call.height > 0
    /\ ~call.shown /\ Count("OnFrameDisplayed") = 1 /\ Len(trace) = 1

(* C4: a presenting invocation that finds the layout or the color-space    *)
(* flag different from the values the swapchain caches calls Create with   *)
(* the current (width, height, is_srgb) before AcquireNextImage, and every *)
(* AcquireNextImage is issued against a swapchain whose cached extent and  *)
(* color space equal the layout and flag read in that invocation.          *)
C4_RecreateBeforeAcquire ==
    [][PresentingCall' =>
          LET is_srgb == call'.accel /\ screen_info'.is_srgb
              differs == \/ call'.width # swapchain.width
                         \/ call'.height # swapchain.height
                         \/ is_srgb # swapchain.srgb
          IN  /\ differs =>
                    \E i, j \in DOMAIN trace' :
                        /\ i < j
                        /\ trace'[i].op = "Create"
                        /\ trace'[i].w = call'.width
                        /\ trace'[i].h = call'.height
                        /\ trace'[i].srgb = is_srgb
                        /\ trace'[j].op = "AcquireNextImage"
              /\ \A j \in DOMAIN trace' :
                    trace'[j].op = "AcquireNextImage" =>
                        /\ trace'[j].w = call'.width
                        /\ trace'[j].h = call'.height
                        /\ trace'[j].srgb = is_srgb]_vars

(* a frame whose only difference from the cached state is the color space  *)
C4_Witness ==
    /\ PresentingCall
    /\ \E i, j \in DOMAIN trace :
          /\ i < j
          /\ trace[i].op = "Create" /\ trace[i].srgb
          /\ trace[i].w = call.width /\ trace[i].h = call.height
          /\ trace[j].op = "AcquireNextImage" /\ trace[j].srgb

IsSubmitCall(e) ==
    e.op \in {"WaitWorker", "AcquireNextImage", "Draw", "Flush", "Present"}

SubmitCalls ==
    SelectSeq(trace, IsSubmitCall)

(* C5: in a presenting invocation the calls WaitWorker, AcquireNextImage,  *)
(* Draw, Flush, Present occur once each in that order, and Flush and       *)
(* Present receive the semaphore that invocation's Draw returned.          *)
C5_SubmitOrder ==
    PresentingCall =>
        /\ Len(SubmitCalls) = 5
        /\ SubmitCalls[1].op = "WaitWorker"
        /\ SubmitCalls[2].op = "AcquireNextImage"
        /\ SubmitCalls[3].op = "Draw"
        /\ SubmitCalls[4].op = "Flush"
        /\ SubmitCalls[5].op = "Present"
        /\ SubmitCalls[4].sem = SubmitCalls[3].sem
        /\ SubmitCalls[5].sem = SubmitCalls[3].sem

C5_Witness ==
    /\ PresentingCall
    /\ Len(SubmitCalls) = 5
    /\ SubmitCalls[3].op = "Draw" /\ SubmitCalls[3].sem = 2
    /\ SubmitCalls[4].op = "Flush" /\ SubmitCalls[4].sem = 2
    /\ SubmitCalls[5].op = "Present" /\ SubmitCalls[5].sem = 2

(* C6 as stated: once Present has reported the engine Stale, no            *)
(* AcquireNextImage or Present is issued against it until a Create has     *)
(* made it Ready again.                                                    *)
C6_NoAcquireOnStaleEngine ==
    InSwapBuffers =>
        \A i \in DOMAIN trace :
            trace[i].op \in {"AcquireNextImage", "Present"} =>
                trace[i].st # "Stale"

(* C7 as stated: every Create is immediately followed by a blit Recreate   *)
(* before any AcquireNextImage, Draw or Present; the blit target is never  *)
(* recreated without a Create just before it; Draw and Present see a blit  *)
(* target built against the current engine.                                *)
C7_Original ==
    InSwapBuffers =>
        /\ \A i \in Positions("Create") :
              /\ i + 1 \in Positions("Recreate")
              /\ \A j \in 1..i : trace[j].op \notin {"AcquireNextImage", "Draw", "Present"}
        /\ \A i \in Positions("Recreate") : i - 1 \in Positions("Create")
        /\ \A i \in Positions("Draw") \cup Positions("Present") : trace[i].blit

(* C7 amended: every Create is immediately followed by a blit Recreate     *)
(* before any AcquireNextImage, Draw or Present; the blit target is        *)
(* recreated without a Create only immediately after a Present that        *)
(* reported staleness; Draw and Present see a blit target built against    *)
(* the current engine.                                                     *)
C7_RecreateInLockStep ==
    InSwapBuffers =>
        /\ \A i \in Positions("Create") :
              /\ i + 1 \in Positions("Recreate")
              /\ \A j \in 1..i : trace[j].op \notin {"AcquireNextImage", "Draw", "Present"}
        /\ \A i \in Positions("Recreate") :
              \/ i - 1 \in Positions("Create")
              \/ i - 1 \in Positions("Present") /\ trace[i - 1].flag
        /\ \A i \in Positions("Draw") \cup Positions("Present") : trace[i].blit

C7_Witness ==
    /\ PresentingCall
    /\ \E i \in Positions("Create") : i + 1 \in Positions("Recreate")
    /\ \E i \in Positions("Present") : trace[i].flag /\ i + 1 \in Positions("Recreate")
    /\ \A i \in Positions("Draw") \cup Positions("Present") : trace[i].blit

(* C8: PickDevices with a device index that is negative or not below the   *)
(* number of enumerated devices fails without a suitability check and      *)
(* without constructing a device, and the device member stays unset.       *)
C8_InvalidIndexFails ==
    (call.name = "Init" /\ Count("PickDevices") = 1
        /\ (call.index < 0 \/ call.index >= call.count)) =>
        /\ ~ret
        /\ Count("IsSuitable") = 0
        /\ Count("VKDevice") = 0
        /\ Count("VKDevice::Create") = 0
        /\ ~device.held

C8_Witness ==
    /\ call.name = "Init" /\ Count("PickDevices") = 1
    /\ call.enumerated /\ call.count > 0 /\ call.index = call.count
    /\ ~ret /\ ~device.held

Releases ==
    <<"~RasterizerVulkan", "~VKBlitScreen", "~VKScheduler", "~VKSwapchain",
      "~VKMemoryManager", "~VKDevice">>

(* C9: ShutDown on an initialized renderer first waits for the device to   *)
(* be idle, then releases rasterizer, blit screen, scheduler, swapchain,   *)
(* memory manager and device, none of them while work is in flight;        *)
(* ShutDown on a renderer without a device makes no call.                  *)
C9_WaitIdleBeforeRelease ==
    call.name = "ShutDown" =>
        /\ call.inited =>
              /\ Len(trace) = 7
              /\ trace[1].op = "WaitIdle"
              /\ \A i \in 2..7 : trace[i].op = Releases[i - 1] /\ ~trace[i].busy
        /\ ~call.device => trace = <<>>

(* a ShutDown that found flushed work still in flight *)
C9_Witness ==
    /\ call.name = "ShutDown" /\ call.inited
    /\ Len(trace) = 7
    /\ trace[1].op = "WaitIdle" /\ trace[1].busy
    /\ ~trace[2].busy

(* C10 as stated: when Init returns false, every component created before  *)
(* the failing step has been released.                                     *)
C10_NoPartialState ==
    (call.name = "Init" /\ ~ret) =>
        ~library /\ ~instance /\ ~debug_callback /\ ~surface /\ ~device.held

InInit ==
    call.name = "Init"

(* C11 as stated: when library loading or instance creation fails, Init    *)
(* returns false without attempting surface creation, device selection or  *)
(* any later step.                                                         *)
C11_FailedInstanceStopsInit ==
    (InInit /\ ~instance) =>
        /\ ~ret
        /\ \A i \in DOMAIN trace :
              trace[i].op \in {"OpenLibrary", "CreateInstance", "CreateDebugCallback"}

ConstructorFor(type) ==
    IF type = "Windows" THEN "Win32"
    ELSE IF type = "X11" THEN "Xlib"
    ELSE IF type = "Wayland" THEN "Wayland"
    ELSE "none"

ConstructorNames ==
    {"Win32", "Xlib", "Wayland"}

Resolvers ==
    {i \in DOMAIN trace :
        \E n \in ConstructorNames : trace[i].op = "vkGetInstanceProcAddr:" \o n}

Constructors ==
    {i \in DOMAIN trace :
        \E n \in ConstructorNames : trace[i].op = "vkCreate" \o n \o "SurfaceKHR"}

SurfaceCreated ==
    \E i \in Constructors : trace[i].flag

(* C12: CreateSurface resolves and calls at most one platform constructor, *)
(* the one of the window-system type; when the type is unsupported in the  *)
(* build, the constructor does not resolve or the platform call fails,     *)
(* CreateSurface returns false and the surface stays unset.                *)
C12_SurfaceDispatch ==
    InInit =>
        /\ Cardinality(Resolvers) <= 1
        /\ Cardinality(Constructors) <= 1
        /\ \A i \in Resolvers :
              trace[i].op = "vkGetInstanceProcAddr:" \o ConstructorFor(call.type)
        /\ \A i \in Constructors :
              /\ trace[i].op = "vkCreate" \o ConstructorFor(call.type) \o "SurfaceKHR"
              /\ Resolvers # {}
        /\ \A i \in Positions("CreateSurface") : trace[i].flag = SurfaceCreated
        /\ ~SurfaceCreated =>
              ~surface /\ ~ret /\ Count("PickDevices") = 0

(* the platform call of the matching constructor reported failure *)
C12_Witness ==
    /\ InInit /\ call.type = "Wayland"
    /\ \E i \in Constructors :
          trace[i].op = "vkCreateWaylandSurfaceKHR" /\ ~trace[i].flag
    /\ ~surface /\ ~ret

(* C13: PickDevices with an in-range index whose candidate is unsuitable   *)
(* fails without constructing a device; a device is constructed only for   *)
(* an in-range index and a suitable candidate, and PickDevices then        *)
(* returns the result of the device's Create.                              *)
C13_SuitabilityThenCreate ==
    (InInit /\ Count("PickDevices") = 1) =>
        /\ (\E i \in Positions("IsSuitable") : ~trace[i].flag) =>
              /\ Count("VKDevice") = 0
              /\ Count("VKDevice::Create") = 0
              /\ ~device.held
              /\ \A i \in Positions("PickDevices") : ~trace[i].flag
        /\ Count("VKDevice") > 0 =>
              /\ call.enumerated /\ call.index >= 0 /\ call.index < call.count
              /\ \E i \in Positions("IsSuitable") :
                    /\ trace[i].flag
                    /\ \A j \in Positions("VKDevice") : i < j
              /\ Count("VKDevice::Create") = 1
        /\ device.held <=> Count("VKDevice") > 0
        /\ \A i \in Positions("VKDevice::Create") :
              /\ \A j \in Positions("PickDevices") : trace[j].flag = trace[i].flag
              /\ device.logical = trace[i].flag

(* an in-range, suitable candidate whose logical device failed to build *)
C13_Witness ==
    /\ InInit /\ Count("PickDevices") = 1
    /\ call.index >= 0 /\ call.index < call.count
    /\ \E i \in Positions("VKDevice::Create") : ~trace[i].flag
    /\ \A j \in Positions("PickDevices") : ~trace[j].flag
    /\ device.held /\ ~ret

(* ---------------------- properties of the report ---------------------- *)
RECURSIVE Split(_, _)
(* the pieces of s between the separators *)
Split(s, sep) ==
    IF s = <<>>
    THEN << <<>> >>
    ELSE LET rest == Split(Tail(s), sep)
         IN  IF s[1] = sep
             THEN << <<>> >> \o rest
             ELSE << <<s[1]>> \o rest[1] >> \o Tail(rest)

Occurrences(x, s) ==
    Cardinality({i \in DOMAIN s : s[i] = x})

(* C14: BuildCommaSeparatedExtensions returns the names in ascending order *)
(* joined by single commas, with no leading or trailing comma; the empty   *)
(* list gives the empty string and a single name gives that name.          *)
C14_SortedCommaSeparated ==
    (report.kind = "extensions" /\ report.done) =>
        LET names == report.extensions
            parts == Split(report.out, Comma)
        IN  /\ names = <<>> => report.out = <<>>
            /\ Len(names) = 1 => report.out = names[1]
            /\ names # <<>> =>
                  /\ Len(parts) = Len(names)
                  /\ \A n \in ExtensionNames :
                        Occurrences(n, parts) = Occurrences(n, names)
                  /\ \A i, j \in DOMAIN parts :
                        i < j => ~LexLess(parts[j], parts[i])
                  /\ report.out[1] # Comma
                  /\ report.out[Len(report.out)] # Comma

(* {"b", "a", "c"} gives "a,b,c" *)
C14_Witness ==
    /\ report.kind = "extensions" /\ report.done
    /\ report.extensions = <<<<98>>, <<97>>, <<99>>>>
    /\ report.out = <<97, 44, 98, 44, 99>>

RECURSIVE ParseDecimal(_)
ParseDecimal(s) ==
    IF s = <<>>
    THEN 0
    ELSE 10 * ParseDecimal(SubSeq(s, 1, Len(s) - 1)) + (s[Len(s)] - Zero)

(* the number held by bits hi..lo of a word *)
Field(v, hi, lo) ==
    Value({b - lo : b \in v \cap (lo..hi)})

(* the fields a driver id is decoded into, highest first *)
FieldRanges(driver_id) ==
    IF driver_id = "NVIDIA_PROPRIETARY"
    THEN <<<<31, 22>>, <<21, 14>>, <<13, 6>>, <<5, 0>>>>
    ELSE IF driver_id = "INTEL_PROPRIETARY_WINDOWS"
    THEN <<<<31, 14>>, <<13, 0>>>>
    ELSE <<<<31, 22>>, <<21, 12>>, <<11, 0>>>>

(* C15: GetDriverVersion prints, separated by dots, four fields (bits      *)
(* 31..22, 21..14, 13..6, 5..0) for the NVIDIA proprietary driver, two     *)
(* (31..14, 13..0) for the Intel proprietary Windows driver and three      *)
(* (31..22, 21..12, 11..0) for every other driver; the fields cover the    *)
(* 32 bits without overlap.                                                *)
C15_DriverVersionFields ==
    (report.kind = "driver" /\ report.done) =>
        LET ranges == FieldRanges(report.driver_id)
            parts  == Split(report.out, Dot)
        IN  /\ Len(parts) = Len(ranges)
            /\ \A i \in DOMAIN ranges :
                  /\ parts[i] # <<>>
                  /\ ParseDecimal(parts[i]) =
                        Field(report.version, ranges[i][1], ranges[i][2])
            /\ UNION {ranges[i][2]..ranges[i][1] : i \in DOMAIN ranges} = 0..31
            /\ \A i, j \in DOMAIN ranges :
                  i # j => (ranges[i][2]..ranges[i][1]) \cap
                           (ranges[j][2]..ranges[j][1]) = {}

(* an NVIDIA version with the lowest bit of each field set: "1.1.1.1" *)
C15_Witness ==
    /\ report.kind = "driver" /\ report.done
    /\ report.driver_id = "NVIDIA_PROPRIETARY"
    /\ report.version = {0, 6, 14, 22}
    /\ report.out = <<49, 46, 49, 46, 49, 46, 49>>

(* -------------------- further properties of the renderer -------------- *)
(* C16: every Flush of a SwapBuffers invocation is preceded in the same    *)
(* invocation by a WaitWorker with no other Flush in between, so a         *)
(* WaitWorker lies between any two consecutive Flush calls and a Flush is  *)
(* issued only when no earlier flush is still in flight.                   *)
C16_WaitBeforeFlush ==
    InSwapBuffers =>
        /\ Count("Flush") <= 1
        /\ \A i \in Positions("Flush") :
              /\ ~trace[i].busy
              /\ \E j \in Positions("WaitWorker") :
                    /\ j < i
                    /\ \A k \in j..(i - 1) : trace[k].op # "Flush"

(* a frame whose WaitWorker found the previous flush still in flight *)
C16_Witness ==
    /\ PresentingCall
    /\ \E j \in Positions("WaitWorker"), i \in Positions("Flush") :
          j < i /\ trace[j].busy /\ ~trace[i].busy

(* the number of calls of op in a record of calls *)
CountIn(tr, op) ==
    Cardinality({i \in DOMAIN tr : tr[i].op = op})

(* C17: the color-space flag of a frame is true only when AccelerateDisplay *)
(* reported acceleration and the screen info reports sRGB, and false for a  *)
(* frame that is not accelerated; a layout mismatch alone and a color-space *)
(* flag mismatch alone each cause Create in that invocation.                *)
C17_ColorSpaceAndTriggers ==
    [][PresentingCall' =>
          LET layout_differs == \/ call'.width # swapchain.width
                                \/ call'.height # swapchain.height
              is_srgb == call'.accel /\ screen_info'.is_srgb
              flags == {trace'[i].srgb : i \in {k \in DOMAIN trace' :
                           trace'[k].op \in {"Create", "AcquireNextImage"}}}
          IN  /\ TRUE \in flags => (call'.accel /\ screen_info'.is_srgb)
              /\ ~call'.accel => flags = {FALSE}
              /\ (layout_differs /\ is_srgb = swapchain.srgb) =>
                    CountIn(trace', "Create") = 1
              /\ (~layout_differs /\ is_srgb # swapchain.srgb) =>
                    CountIn(trace', "Create") = 1]_vars

(* a frame that is not accelerated while the screen info reports sRGB: the *)
(* engine leaves sRGB for the standard color space, the layout unchanged   *)
C17_Witness ==
    /\ PresentingCall /\ ~call.accel /\ screen_info.is_srgb
    /\ \E i \in Positions("Create") :
          /\ ~trace[i].srgb
          /\ trace[i].w = call.width /\ trace[i].h = call.height
    /\ \A i \in Positions("AcquireNextImage") : ~trace[i].srgb

(* C18: in a presenting invocation Present is followed at once by the blit *)
(* Recreate when it reports staleness and then by TickFrame, otherwise at  *)
(* once by TickFrame; TickFrame is called exactly once; OnFrameDisplayed   *)
(* is called exactly once and is the last call. An invocation that did not *)
(* present does not call TickFrame.                                        *)
C18_TailOrder ==
    InSwapBuffers =>
        /\ PresentingCall =>
              /\ Count("Present") = 1
              /\ Count("TickFrame") = 1
              /\ Count("OnFrameDisplayed") = 1
              /\ trace[Len(trace)].op = "OnFrameDisplayed"
              /\ \A i \in Positions("Present") :
                    IF trace[i].flag
                    THEN /\ i + 1 \in Positions("Recreate")
                         /\ i + 2 \in Positions("TickFrame")
                    ELSE i + 1 \in Positions("TickFrame")
        /\ Count("Present") = 0 => Count("TickFrame") = 0

(* a frame whose Present reported staleness *)
C18_Witness ==
    /\ PresentingCall
    /\ \E i \in Positions("Present") :
          /\ trace[i].flag
          /\ trace[i + 1].op = "Recreate"
          /\ trace[i + 2].op = "TickFrame"
          /\ trace[i + 3].op = "OnFrameDisplayed"
          /\ Len(trace) = i + 3

ShutDownCalls ==
    {"ShutDown", "~RendererVulkan"}

(* the objects ShutDown releases, with what holds each before the call *)
HeldBefore(op) ==
    IF op = "~RasterizerVulkan" THEN rasterizer
    ELSE IF op = "~VKBlitScreen" THEN blit_screen.held
    ELSE IF op = "~VKScheduler" THEN scheduler
    ELSE IF op = "~VKSwapchain" THEN swapchain.held
    ELSE IF op = "~VKMemoryManager" THEN memory_manager
    ELSE IF op = "~VKDevice" THEN device.held
    ELSE TRUE

(* C19: a ShutDown, the destructor's included, that finds the device unset *)
(* makes no call, and every ShutDown leaves the device unset, so a further *)
(* ShutDown waits for nothing and releases nothing; a ShutDown releases    *)
(* only what is held, each object once, the device last, and holds nothing *)
(* of what it releases afterwards.                                         *)
C19_ShutDownIdempotent ==
    [][call'.name \in ShutDownCalls =>
          /\ ~device.held => trace' = <<>>
          /\ call.name \in ShutDownCalls => trace' = <<>>
          /\ \A i \in DOMAIN trace' :
                /\ HeldBefore(trace'[i].op)
                /\ CountIn(trace', trace'[i].op) = 1
                /\ trace'[i].op = "~VKDevice" => i = Len(trace')
          /\ device.held => CountIn(trace', "~VKDevice") = 1
          /\ ~device'.held /\ ~rasterizer' /\ ~blit_screen'.held
          /\ ~scheduler' /\ ~swapchain'.held /\ ~memory_manager']_vars

(* a second ShutDown on a renderer that was initialized and shut down *)
C19_Witness ==
    /\ call.name = "ShutDown" /\ ~call.device
    /\ state_tracker /\ ~device.held
    /\ trace = <<>>

(* C20: a presenting invocation whose layout and color-space flag equal    *)
(* the cached state of the engine does not call Create; any invocation     *)
(* calls Create at most once and recreates the blit target at most twice,  *)
(* once with Create and once for a Present that reported staleness.        *)
C20_NoRedundantRecreation ==
    [][InSwapBuffers' =>
          LET is_srgb == call'.accel /\ screen_info'.is_srgb
              same == /\ call'.width = swapchain.width
                      /\ call'.height = swapchain.height
                      /\ is_srgb = swapchain.srgb
          IN  /\ (PresentingCall' /\ same) => CountIn(trace', "Create") = 0
              /\ CountIn(trace', "Create") <= 1
              /\ CountIn(trace', "Recreate") <= 2
              /\ CountIn(trace', "Recreate") =
                    CountIn(trace', "Create") +
                    (IF call'.outdated THEN 1 ELSE 0)]_vars

(* a frame on an unchanged layout and color space *)
C20_Witness ==
    /\ PresentingCall
    /\ Count("Create") = 0
    /\ Count("Recreate") = 0
    /\ Count("AcquireNextImage") = 1
====
